---- MODULE Spec2Model ----
(***************************************************************************)
(* Model of the Ansible lookup plugin gl_latest_version                    *)
(* (plugins/lookup/gl_latest_version.py): LookupModule.run fetches a GCS   *)
(* object listing, scrapes the "name" fields, extracts the /v.../ path     *)
(* segment of each name, deduplicates, sorts by ver_key descending and     *)
(* returns the first element.                                              *)
(*                                                                         *)
(* Strings are sequences of one-character strings so that the regular      *)
(* expressions, the split and the int() conversion are computed, not       *)
(* assumed.  The response body is a sequence of JSON fields (key, value);  *)
(* the text between the fields is not modelled.                            *)
(***************************************************************************)
EXTENDS Integers, Sequences, FiniteSets, TLC

VARIABLES
    listing,    \* the body the storage endpoint serves (environment)
    pc,         \* position of run()
    conn,       \* the response handle of urlopen: "none", "open", "closed"
    requests,   \* number of urlopen calls issued by this invocation
    raised,     \* the exception raised inside the try block, or "none"
    data,       \* line 43
    names,      \* line 47
    versions,   \* lines 48-52
    ranked,     \* versions after line 66
    error,      \* the exception run() terminated with, or NoError
    result      \* the returned list, <<>> while nothing is returned

vars == <<listing, pc, conn, requests, raised, data, names, versions,
          ranked, error, result>>

----------------------------------------------------------------------------
(* Bounds *)

MaxNames == 3

----------------------------------------------------------------------------
(* Characters and strings *)

Digits == <<"0", "1", "2", "3", "4", "5", "6", "7", "8", "9">>

Letters == <<"a", "b", "c", "d", "e", "f", "g", "h", "i", "j", "k", "l", "m",
             "n", "o", "p", "q", "r", "s", "t", "u", "v", "w", "x", "y", "z">>

IsDigit(c) == \E i \in 1..10 : Digits[i] = c

DigitVal(c) == (CHOOSE i \in 1..10 : Digits[i] = c) - 1

\* Unicode code point of the characters object names are written with.
Ord(c) ==
    IF IsDigit(c) THEN 48 + DigitVal(c)
    ELSE IF \E i \in 1..26 : Letters[i] = c
         THEN 96 + (CHOOSE i \in 1..26 : Letters[i] = c)
    ELSE IF c = "#" THEN 35
    ELSE IF c = "-" THEN 45
    ELSE IF c = "." THEN 46
    ELSE 47

\* str.__lt__: lexicographic by code point, a proper prefix is smaller.
RECURSIVE StrLess(_, _)
StrLess(a, b) ==
    IF b = <<>> THEN FALSE
    ELSE IF a = <<>> THEN TRUE
    ELSE IF Head(a) = Head(b) THEN StrLess(Tail(a), Tail(b))
    ELSE Ord(Head(a)) < Ord(Head(b))

PREFIX == <<"g", "e", "n", "l", "a", "y", "e", "r", "-", "n", "o", "d", "e",
            "/", "b", "i", "n", "/", "a", "m", "d", "6", "4">>

NODE == <<"/", "n", "o", "d", "e">>

V_0_3_2 == <<"v", "0", ".", "3", ".", "2">>

V_0_3_9 == <<"v", "0", ".", "3", ".", "9">>

V_0_3_10 == <<"v", "0", ".", "3", ".", "1", "0">>

V_1_0 == <<"v", "1", ".", "0">>

V_1d0 == <<"v", "1", "-", "0">>

V_1_0_0 == <<"v", "1", ".", "0", ".", "0">>

V_1_0_0_rc1 == <<"v", "1", ".", "0", ".", "0", "-", "r", "c", "1">>

V_1_0_rc1 == <<"v", "1", ".", "0", ".", "r", "c", "1">>

V_1_0_10 == <<"v", "1", ".", "0", ".", "1", "0">>

V_9_9_9 == <<"v", "9", ".", "9", ".", "9">>

KIND_VALUE == <<"s", "t", "o", "r", "a", "g", "e", "#", "o", "b", "j", "e",
                "c", "t">>

\* genlayer-node/bin/amd64/<v>/node
NodePath(v) == PREFIX \o <<"/">> \o v \o NODE

PoolVersions ==
    {V_0_3_2, V_0_3_9, V_0_3_10, V_1_0, V_1d0, V_1_0_0, V_1_0_0_rc1,
     V_1_0_rc1, V_1_0_10}

\* An object name without a /v.../ segment: the version is the last path
\* component.
NAME_LAST == PREFIX \o <<"/">> \o V_9_9_9

\* A byte that is not valid UTF-8.
BAD_BYTE == "\\xff"

\* The bytes of NAME_LAST followed by an invalid byte.
RAW_LAST == NAME_LAST \o <<BAD_BYTE>>

\* An object name with two /v.../ segments.
NAME_TWO == PREFIX \o <<"/">> \o V_0_3_2 \o <<"/">> \o V_9_9_9 \o NODE

Field(k, v) == [key |-> k, value |-> v]

PoolFields ==
    {Field("name", NodePath(v)) : v \in PoolVersions}
    \cup {Field("name", RAW_LAST), Field("name", NAME_TWO),
          Field("kind", KIND_VALUE)}

Listings == UNION {[1..n -> PoolFields] : n \in 0..MaxNames}

----------------------------------------------------------------------------
(* Exceptions *)

NoError == [type |-> "none", msg |-> <<>>]

\* Failures of urlopen() before a response object exists.
OpenFaults == {"timed out", "Name or service not known", "Connection refused"}

\* Failures of resp.read() inside the with block.
ReadFaults == {"timed out", "Connection reset by peer"}

\* The message without the cause.
FetchErrorBare(e) == [type |-> "AnsibleError",
                      msg |-> <<"Failed to fetch versions: ">>]

\* line 45
FetchError(e) == [type |-> "AnsibleError",
                  msg |-> <<"Failed to fetch versions: ", e>>]

\* line 54
NoVersionsError == [type |-> "AnsibleError",
                    msg |-> <<"No versions found in GCS listing.">>]

\* int < str inside sorted(), not caught by run()
ComparisonError == [type |-> "TypeError",
                    msg |-> <<"'<' not supported between instances">>]

----------------------------------------------------------------------------
(* Extraction, lines 47-52 *)

\* re.findall(r'"name":\s*"([^"]+)"', data): the values of the name fields;
\* [^"]+ needs at least one character.
RECURSIVE FindAll(_)
FindAll(d) ==
    IF d = <<>> THEN <<>>
    ELSE IF Head(d).key = "name" /\ Head(d).value # <<>>
         THEN <<Head(d).value>> \o FindAll(Tail(d))
         ELSE FindAll(Tail(d))

\* Index of the first "/" at or after position k, 0 when there is none.
NextSlash(n, k) ==
    IF \E j \in k..Len(n) : n[j] = "/"
    THEN CHOOSE j \in k..Len(n) :
            n[j] = "/" /\ \A l \in k..(j - 1) : n[l] # "/"
    ELSE 0

\* r'/(v[^/]+)/' matches starting at position i.
MatchAt(n, i) ==
    /\ i + 2 <= Len(n)
    /\ n[i] = "/"
    /\ n[i + 1] = "v"
    /\ NextSlash(n, i + 2) > i + 2

\* The rightmost match instead of the leftmost one.
SearchLast(n) ==
    IF \E i \in 1..Len(n) : MatchAt(n, i)
    THEN LET i == CHOOSE i \in 1..Len(n) :
                    MatchAt(n, i) /\ \A l \in (i + 1)..Len(n) : ~MatchAt(n, l)
         IN SubSeq(n, i + 1, NextSlash(n, i + 2) - 1)
    ELSE <<>>

\* re.search(r'/(v[^/]+)/', n): group 1 of the leftmost match, <<>> for None.
Search(n) ==
    IF \E i \in 1..Len(n) : MatchAt(n, i)
    THEN LET i == CHOOSE i \in 1..Len(n) :
                    MatchAt(n, i) /\ \A l \in 1..(i - 1) : ~MatchAt(n, l)
         IN SubSeq(n, i + 1, NextSlash(n, i + 2) - 1)
    ELSE <<>>

\* lines 48-52
RECURSIVE ExtractVersions(_)
ExtractVersions(ns) ==
    IF ns = <<>> THEN <<>>
    ELSE LET m == Search(Head(ns))
         IN IF m # <<>> THEN <<m>> \o ExtractVersions(Tail(ns))
            ELSE ExtractVersions(Tail(ns))

----------------------------------------------------------------------------
(* ver_key, lines 56-65 *)

IntTok(i) == [t |-> "int", i |-> i, s |-> <<>>]

StrTok(s) == [t |-> "str", i |-> 0, s |-> s]

\* re.split(r'[\.-]', core): always at least one part, parts may be empty.
RECURSIVE Split(_, _)
Split(core, cur) ==
    IF core = <<>> THEN <<cur>>
    ELSE IF Head(core) = "." \/ Head(core) = "-"
         THEN <<cur>> \o Split(Tail(core), <<>>)
         ELSE Split(Tail(core), Append(cur, Head(core)))

RECURSIVE Decimal(_, _)
Decimal(p, acc) ==
    IF p = <<>> THEN acc
    ELSE Decimal(Tail(p), 10 * acc + DigitVal(Head(p)))

\* int(p) succeeds on a non-empty run of decimal digits (the object names
\* modelled here have no sign, underscore or blank inside a part).
ParsesAsInt(p) == p # <<>> /\ \A k \in 1..Len(p) : IsDigit(p[k])

\* Every part kept as a string.
TokenStr(p) == StrTok(p)

\* lines 60-64
Token(p) == IF ParsesAsInt(p) THEN IntTok(Decimal(p, 0)) ELSE StrTok(p)

ver_key(v) ==
    LET core == Tail(v)
        parts == Split(core, <<>>)
    IN [k \in 1..Len(parts) |-> Token(parts[k])]

\* a < b on two tokens: "lt", "ge", or "err" for int against str.
TokLess(a, b) ==
    IF a.t # b.t THEN "err"
    ELSE IF a.t = "int" THEN (IF a.i < b.i THEN "lt" ELSE "ge")
    ELSE IF StrLess(a.s, b.s) THEN "lt" ELSE "ge"

\* A list comparison in which a proper prefix is the greater list.
RECURSIVE KeyLessPrefixGreater(_, _)
KeyLessPrefixGreater(a, b) ==
    IF a = <<>> THEN "ge"
    ELSE IF b = <<>> THEN "lt"
    ELSE IF Head(a) = Head(b) THEN KeyLessPrefixGreater(Tail(a), Tail(b))
    ELSE TokLess(Head(a), Head(b))

\* list.__lt__: the first position where the items are not equal decides;
\* without one the shorter list is smaller.
RECURSIVE KeyLess(_, _)
KeyLess(a, b) ==
    IF a = <<>> THEN (IF b = <<>> THEN "ge" ELSE "lt")
    ELSE IF b = <<>> THEN "ge"
    ELSE IF Head(a) = Head(b) THEN KeyLess(Tail(a), Tail(b))
    ELSE TokLess(Head(a), Head(b))

----------------------------------------------------------------------------
(* sorted(set(versions), key=ver_key, reverse=True), line 66 *)

ToSet(s) == {s[k] : k \in 1..Len(s)}

\* The orders in which a set of strings can be iterated: the order follows
\* the strings' hashes, which are salted per interpreter process.
RECURSIVE SetOrders(_)
SetOrders(S) ==
    IF S = {} THEN {<<>>}
    ELSE UNION {{<<x>> \o p : p \in SetOrders(S \ {x})} : x \in S}

\* Iterating the list itself, duplicates included.
ListIter(vs) == {vs}

\* set(versions): the possible iteration orders of the deduplicated list
SetIter(vs) == SetOrders(ToSet(vs))

\* key=ver_key: sorted() computes the key of every element once.
Keys(S) == [v \in S |-> ver_key(v)]

\* sorted() compares with < only; any two neighbours of the output have been
\* compared, so an int/str pair at the first differing position of two keys
\* is always met and raises TypeError.
Incomparable(K) ==
    \E v, w \in DOMAIN K : KeyLess(K[v], K[w]) = "err"

\* Stable insertion of x into a list sorted descending by key: x goes before
\* the first element whose key is smaller.
RECURSIVE InsertDesc(_, _, _)
InsertDesc(r, x, K) ==
    IF r = <<>> THEN <<x>>
    ELSE IF KeyLess(K[Head(r)], K[x]) = "lt"
         THEN <<x>> \o r
         ELSE <<Head(r)>> \o InsertDesc(Tail(r), x, K)

\* reverse=True keeps the input order of elements with equal keys.
RECURSIVE SortDesc(_, _)
SortDesc(s, K) ==
    IF s = <<>> THEN <<>>
    ELSE InsertDesc(SortDesc(SubSeq(s, 1, Len(s) - 1), K), s[Len(s)], K)

\* sorted(o, key=ver_key, reverse=True) for keys that are comparable
Sorted(o) == SortDesc(o, Keys(ToSet(o)))

----------------------------------------------------------------------------
(* LookupModule.run *)

\* A response that is never closed.
RespLeak(c) == c

\* resp.__exit__ at the end of the with block, line 42
RespExit(c) == "closed"

ValidByte(c) == c # BAD_BYTE

\* resp.read().decode('utf-8', errors='ignore'), line 43: invalid bytes are
\* dropped.
Decode(body) ==
    [k \in 1..Len(body) |->
        Field(body[k].key, SelectSeq(body[k].value, ValidByte))]

Init ==
    /\ listing \in Listings
    /\ pc = "urlopen"
    /\ conn = "none"
    /\ requests = 0
    /\ raised = "none"
    /\ data = <<>>
    /\ names = <<>>
    /\ versions = <<>>
    /\ ranked = <<>>
    /\ error = NoError
    /\ result = <<>>

\* line 42: urlopen(URL, timeout=15) returns a response
UrlopenOk ==
    /\ pc = "urlopen"
    /\ requests' = requests + 1
    /\ conn' = "open"
    /\ pc' = "read"
    /\ UNCHANGED <<listing, raised, data, names, versions, ranked,
                   error, result>>

\* lines 42, 44-45: urlopen raises
UrlopenFail ==
    /\ pc = "urlopen"
    /\ \E e \in OpenFaults :
        /\ raised' = e
        /\ error' = FetchError(e)
    /\ requests' = requests + 1
    /\ pc' = "failed"
    /\ UNCHANGED <<listing, conn, data, names, versions, ranked,
                   result>>

\* line 43 and the exit of the with block
ReadOk ==
    /\ pc = "read"
    /\ data' = Decode(listing)
    /\ conn' = RespExit(conn)
    /\ pc' = "findall"
    /\ UNCHANGED <<listing, requests, raised, names, versions, ranked,
                   error, result>>

\* line 43 raises: the with block exits, lines 44-45
ReadFail ==
    /\ pc = "read"
    /\ \E e \in ReadFaults :
        /\ raised' = e
        /\ error' = FetchError(e)
    /\ conn' = RespExit(conn)
    /\ pc' = "failed"
    /\ UNCHANGED <<listing, requests, data, names, versions, ranked,
                   result>>

\* line 47
FindNames ==
    /\ pc = "findall"
    /\ names' = FindAll(data)
    /\ pc' = "extract"
    /\ UNCHANGED <<listing, conn, requests, raised, data, versions, ranked,
                   error, result>>

\* Extraction that returns an empty result instead of raising.
ExtractDefault ==
    /\ pc = "extract"
    /\ versions' = ExtractVersions(names)
    /\ pc' = IF versions' = <<>> THEN "done" ELSE "sort"
    /\ UNCHANGED <<listing, conn, requests, raised, data, names, ranked,
                   error, result>>

\* lines 48-54
Extract ==
    /\ pc = "extract"
    /\ versions' = ExtractVersions(names)
    /\ IF versions' = <<>>
       THEN /\ error' = NoVersionsError
            /\ pc' = "failed"
       ELSE /\ error' = error
            /\ pc' = "sort"
    /\ UNCHANGED <<listing, conn, requests, raised, data, names, ranked,
                   result>>

\* line 66
Sort ==
    /\ pc = "sort"
    /\ LET K == Keys(ToSet(versions))
       IN IF Incomparable(K)
          THEN /\ error' = ComparisonError
               /\ ranked' = ranked
               /\ pc' = "failed"
          ELSE /\ error' = error
               /\ \E o \in SetIter(versions) : ranked' = SortDesc(o, K)
               /\ pc' = "return"
    /\ UNCHANGED <<listing, conn, requests, raised, data, names, versions,
                   result>>

\* line 67
Return ==
    /\ pc = "return"
    /\ result' = <<ranked[1]>>
    /\ pc' = "done"
    /\ UNCHANGED <<listing, conn, requests, raised, data, names, versions,
                   ranked, error>>

Next ==
    \/ UrlopenOk
    \/ UrlopenFail
    \/ ReadOk
    \/ ReadFail
    \/ FindNames
    \/ Extract
    \/ Sort
    \/ Return

Spec == Init /\ [][Next]_vars

----------------------------------------------------------------------------
(* Vocabulary of the properties *)

Terminated == pc \in {"done", "failed"}

\* The listing was fetched: the try block of lines 41-45 raised nothing.
Fetched == raised = "none" /\ pc \notin {"urlopen", "read"}

\* Lines 48-54 have run.
Extracted == Fetched /\ pc \notin {"findall", "extract"}

Count(s, x) == Cardinality({k \in 1..Len(s) : s[k] = x})

IsPrefix(a, b) == Len(a) <= Len(b) /\ SubSeq(b, 1, Len(a)) = a

StrictPrefix(a, b) == Len(a) < Len(b) /\ SubSeq(b, 1, Len(a)) = a

\* The dot- and hyphen-separated parts of a version string, as text.
Parts(v) == Split(Tail(v), <<>>)

Numeric(p) == p # <<>> /\ \A k \in 1..Len(p) : IsDigit(p[k])

\* The part lists pv and pw agree before position k and have numeric parts
\* of different value at position k.
FirstDifferNumericAt(pv, pw, k) ==
    /\ k <= Len(pv)
    /\ k <= Len(pw)
    /\ Numeric(pv[k])
    /\ Numeric(pw[k])
    /\ SubSeq(pv, 1, k - 1) = SubSeq(pw, 1, k - 1)
    /\ Decimal(pv[k], 0) # Decimal(pw[k], 0)

\* In the list r, sorted descending, the candidate with the larger integer
\* at such a position comes first.
LargerIntegerFirst(r) ==
    \A i, j \in 1..Len(r) :
        i < j =>
            LET pv == Parts(r[i])
                pw == Parts(r[j])
            IN \A k \in 1..Len(pv) :
                  FirstDifferNumericAt(pv, pw, k) =>
                      Decimal(pv[k], 0) > Decimal(pw[k], 0)

\* The comparison of the keys of v and w follows the integers at such a
\* position.
ComparedAsIntegers(v, w) ==
    LET pv == Parts(v)
        pw == Parts(w)
    IN \A k \in 1..Len(pv) :
          FirstDifferNumericAt(pv, pw, k) =>
              KeyLess(ver_key(v), ver_key(w)) =
                  (IF Decimal(pv[k], 0) < Decimal(pw[k], 0)
                   THEN "lt" ELSE "ge")

\* The positions of the "/" characters of n.
Slashes(n) == {k \in 1..Len(n) : n[k] = "/"}

\* Between the consecutive slashes at i and j lies a segment that starts
\* with "v" and has at least one more character.
SegmentBetween(n, i, j) ==
    /\ j > i + 2
    /\ n[i + 1] = "v"
    /\ \A k \in Slashes(n) : ~(i < k /\ k < j)

HasSegment(n) ==
    \E i, j \in Slashes(n) : SegmentBetween(n, i, j)

\* s is the first such segment of n.
FirstSegment(n, s) ==
    \E i, j \in Slashes(n) :
        /\ SegmentBetween(n, i, j)
        /\ s = SubSeq(n, i + 1, j - 1)
        /\ \A a, b \in Slashes(n) : SegmentBetween(n, a, b) => i <= a

\* vs is what the names ns contribute, name by name, at most one each.
RECURSIVE Contributes(_, _)
Contributes(ns, vs) ==
    IF ns = <<>> THEN vs = <<>>
    ELSE IF HasSegment(Head(ns))
         THEN /\ vs # <<>>
              /\ FirstSegment(Head(ns), Head(vs))
              /\ Contributes(Tail(ns), Tail(vs))
         ELSE Contributes(Tail(ns), vs)

\* The elements of S whose key no element of S exceeds.
Maxima(S) ==
    {v \in S : \A w \in S : KeyLess(ver_key(v), ver_key(w)) = "ge"}

ExampleNames == {NodePath(V_0_3_9), NodePath(V_0_3_10), NodePath(V_0_3_2)}

----------------------------------------------------------------------------
(* Properties *)

\* C1: whenever at least one version string is extracted, run() returns a
\* one-element list holding an extracted version whose key is greater than or
\* equal to the key of every extracted version.
C1_ReturnsMaximum ==
    (Terminated /\ Extracted /\ versions # <<>>) =>
        /\ pc = "done"
        /\ Len(result) = 1
        /\ result[1] \in ToSet(versions)
        /\ \A w \in ToSet(versions) :
              KeyLess(ver_key(result[1]), ver_key(w)) = "ge"

\* C2: numeric parts are compared as integers: of two ranked candidates that
\* first differ at a position where both parts are numeric, the one with the
\* larger integer comes first, and the listing of v0.3.9, v0.3.10 and v0.3.2
\* makes run() return v0.3.10.
C2_NumericTokensAsIntegers ==
    /\ Extracted =>
          \A v, w \in ToSet(versions) : ComparedAsIntegers(v, w)
    /\ pc \in {"return", "done"} => LargerIntegerFirst(ranked)
    /\ (Terminated /\ Fetched /\ ToSet(names) = ExampleNames) =>
          (pc = "done" /\ result = <<V_0_3_10>>)

C2_Witness ==
    /\ pc = "done"
    /\ ToSet(names) = ExampleNames
    /\ result = <<V_0_3_10>>
    /\ \E i, j \in 1..Len(ranked) :
          i < j /\ ranked[i] = V_0_3_10 /\ ranked[j] = V_0_3_9

\* C3: a fetched listing in which no object name has a /v.../ segment makes
\* run() fail with the "no versions found" error and return nothing; run()
\* never returns an empty result.
C3_NoVersionsFound ==
    /\ (Terminated /\ Fetched
            /\ \A k \in 1..Len(names) : ~HasSegment(names[k])) =>
          /\ pc = "failed"
          /\ error.type = "AnsibleError"
          /\ error.msg = <<"No versions found in GCS listing.">>
          /\ result = <<>>
    /\ pc = "done" => result # <<>>

C3_Witness ==
    /\ pc = "failed"
    /\ Fetched
    /\ names # <<>>
    /\ Len(names) < Len(data)
    /\ error.msg = <<"No versions found in GCS listing.">>

\* C4: a failed fetch ends run() with the fetch error that carries the cause,
\* after exactly one request, with nothing extracted, sorted or returned, and
\* no further step follows.
C4_FetchFailureIsTerminal ==
    raised # "none" =>
        /\ pc = "failed"
        /\ error.type = "AnsibleError"
        /\ error.msg = <<"Failed to fetch versions: ", raised>>
        /\ requests = 1
        /\ data = <<>> /\ names = <<>> /\ versions = <<>>
        /\ ranked = <<>> /\ result = <<>>
        /\ ~ENABLED Next

C4_Witness ==
    /\ raised = "timed out"
    /\ pc = "failed"
    /\ conn = "closed"
    /\ listing # <<>>

C6_ComparisonIsTotal ==
    Terminated =>
        \/ pc = "done" /\ Len(result) = 1 /\ error.type = "none"
        \/ /\ pc = "failed"
           /\ result = <<>>
           /\ versions = <<>>
           /\ error.type = "AnsibleError"

\* C7: once run() has terminated the response is not open, and extraction
\* and sorting happen only after it has been closed.
C7_ConnectionReleased ==
    /\ Terminated => conn # "open"
    /\ pc \in {"findall", "extract", "sort", "return", "done"} =>
          conn = "closed"
    /\ (pc = "failed" /\ raised = "none") => conn = "closed"
    /\ (data # <<>> \/ names # <<>> \/ versions # <<>> \/ ranked # <<>>) =>
          conn = "closed"

C7_Witness ==
    /\ pc = "failed"
    /\ raised = "Connection reset by peer"
    /\ conn = "closed"

\* C8: a candidate whose key is a strict prefix of another candidate's key
\* ranks below it and is never returned; the candidates v1.0.0 and
\* v1.0.0-rc1 make run() return v1.0.0-rc1.
C8_PrefixKeyIsLess ==
    /\ Extracted =>
          \A v, w \in ToSet(versions) :
              StrictPrefix(ver_key(v), ver_key(w)) =>
                  /\ KeyLess(ver_key(v), ver_key(w)) = "lt"
                  /\ KeyLess(ver_key(w), ver_key(v)) = "ge"
    /\ pc \in {"return", "done"} =>
          \A i, j \in 1..Len(ranked) :
              StrictPrefix(ver_key(ranked[i]), ver_key(ranked[j])) => j < i
    /\ pc = "done" =>
          \A v, w \in ToSet(versions) :
              StrictPrefix(ver_key(v), ver_key(w)) => result[1] # v
    /\ (Terminated /\ Extracted /\ ToSet(versions) = {V_1_0_0, V_1_0_0_rc1}) =>
          (pc = "done" /\ result = <<V_1_0_0_rc1>>)

C8_Witness ==
    /\ pc = "done"
    /\ ToSet(versions) = {V_1_0_0, V_1_0_0_rc1}
    /\ ranked = <<V_1_0_0_rc1, V_1_0_0>>
    /\ result = <<V_1_0_0_rc1>>

\* C9: every object name contributes its first /v.../ segment and nothing
\* else, a name without such a segment contributes nothing, and a skipped
\* name never makes run() fail while another name contributes.
C9_FirstSegmentPerName ==
    Extracted =>
        /\ Contributes(names, versions)
        /\ Len(versions) <= Len(names)
        /\ (\E k \in 1..Len(names) : HasSegment(names[k])) =>
              /\ versions # <<>>
              /\ error.msg # <<"No versions found in GCS listing.">>

C9_Witness ==
    /\ pc = "done"
    /\ \E k \in 1..Len(names) : names[k] = NAME_TWO
    /\ \E k \in 1..Len(names) : names[k] = NAME_LAST
    /\ versions = <<V_0_3_2>>
    /\ result = <<V_0_3_2>>

\* C10: the returned version is the same for every order in which the
\* distinct version strings can reach the sort.
C10_OrderIrrelevant ==
    pc = "done" =>
        \A o \in SetOrders(ToSet(versions)) : Sorted(o)[1] = result[1]

====
